---- MODULE Spec2Model ----
(***************************************************************************)
(* The SuperHero compiler (superhero_compiler.py) as a state machine:      *)
(* lexer, resolver pass, instruction builder, code generator and the       *)
(* compile_superhero driver.  Text is a sequence of one-character strings, *)
(* so that lexing, number parsing and code formatting are computed, not    *)
(* assumed.  Indices into a line are 0-based, as in the source.            *)
(***************************************************************************)
EXTENDS Integers, Sequences, FiniteSets, TLC

VARIABLES
    lines,              \* code.split('\n'): the source text, one character sequence per line
    pc,                 \* position of compile_superhero
    line_num,           \* tokenize: 1-based number of the line last taken by the for loop
    i,                  \* tokenize: column of the scan in the current line (0-based)
    indentation,        \* tokenize: leading whitespace of the current line
    line_tokens,        \* tokenize: tokens of the current line
    tokens,             \* tokenize: tokens of the lines completed so far
    multiline_comment,  \* tokenize: inside a heroes* ... *heroes region
    fp_i,               \* first_pass: scan index (0-based)
    fp_visited,         \* first_pass: indices the loop head has examined, in order
    labels,             \* SuperHeroParser.labels
    flashes,            \* SuperHeroParser.flashes: <<name, body>> pairs in insertion order
    doctorstranges,     \* SuperHeroParser.doctorstranges: <<name, size>> pairs in insertion order
    current,            \* SuperHeroParser.current
    ast,                \* code_blocks of parse()
    gen_code,           \* CodeGenerator.code: the appended entries
    temp_exists,        \* the temporary .c file is on disk
    temp_created,       \* the temporary .c file was created at some point
    toolchain_runs,     \* number of subprocess.run calls made
    error,              \* the fatal error printed before sys.exit(1), or NoError
    result              \* return value of compile_superhero, or NoResult

vars == <<lines, pc, line_num, i, indentation, line_tokens, tokens,
          multiline_comment, fp_i, fp_visited, labels, flashes, doctorstranges,
          current, ast, gen_code, temp_exists, temp_created,
          toolchain_runs, error, result>>

--------------------------------------------------------------------------
(* Bounds of the checked inputs *)

MaxOps == 2
MaxLines == 2

--------------------------------------------------------------------------
(* Characters and Python's str predicates on them *)

Digits == {"0","1","2","3","4","5","6","7","8","9"}

Letters == {"a","b","c","d","e","f","g","h","i","j","k","l","m","n","o","p","q",
            "r","s","t","u","v","w","x","y","z","L","N"}

Spaces == {" "}

isspace(c) == c \in Spaces

isdigit(c) == c \in Digits

isalpha(c) == c \in Letters

isalnum(c) == isalpha(c) \/ isdigit(c)

\* line[k] with Python's 0-based index
Ch(line, k) == line[k + 1]

\* line[a:b] with Python's 0-based, end-exclusive slice
Slice(line, a, b) == IF b > a THEN SubSeq(line, a + 1, b) ELSE <<>>

startswith(s, p) == Len(s) >= Len(p) /\ SubSeq(s, 1, Len(p)) = p

endswith(s, p) == Len(s) >= Len(p) /\ SubSeq(s, Len(s) - Len(p) + 1, Len(s)) = p

\* p in s
Contains(s, p) == \E k \in 0..(Len(s) - Len(p)) : Slice(s, k, k + Len(p)) = p

RECURSIVE LeadingSpaces(_)
\* len(line) - len(line.lstrip())
LeadingSpaces(line) ==
    IF line # <<>> /\ isspace(Head(line)) THEN 1 + LeadingSpaces(Tail(line)) ELSE 0

\* line.strip() is empty
IsBlank(line) == \A k \in 1..Len(line) : isspace(line[k])

\* line.lstrip(): strip() and lstrip() agree on every prefix test made of the line
lstrip(line) == Slice(line, LeadingSpaces(line), Len(line))

DigitVal(c) ==
    CASE c = "0" -> 0 [] c = "1" -> 1 [] c = "2" -> 2 [] c = "3" -> 3 [] c = "4" -> 4
      [] c = "5" -> 5 [] c = "6" -> 6 [] c = "7" -> 7 [] c = "8" -> 8 [] c = "9" -> 9

DigitChar(d) ==
    CASE d = 0 -> "0" [] d = 1 -> "1" [] d = 2 -> "2" [] d = 3 -> "3" [] d = 4 -> "4"
      [] d = 5 -> "5" [] d = 6 -> "6" [] d = 7 -> "7" [] d = 8 -> "8" [] d = 9 -> "9"

RECURSIVE DecVal(_, _)
\* value of a digit string read left to right, underscores passed over
DecVal(s, acc) ==
    IF s = <<>> THEN acc
    ELSE IF Head(s) = "_" THEN DecVal(Tail(s), acc)
    ELSE DecVal(Tail(s), 10 * acc + DigitVal(Head(s)))

\* int(s) accepts decimal digits with single underscores between digits
IntValid(s) ==
    /\ s # <<>>
    /\ \A k \in 1..Len(s) : isdigit(s[k]) \/ s[k] = "_"
    /\ isdigit(s[1]) /\ isdigit(s[Len(s)])
    /\ \A k \in 1..(Len(s) - 1) : ~(s[k] = "_" /\ s[k + 1] = "_")

PyInt(s) == DecVal(s, 0)

RECURSIVE IntToStr(_)
\* str(n) for n >= 0
IntToStr(n) ==
    IF n < 10 THEN <<DigitChar(n)>> ELSE IntToStr(n \div 10) \o <<DigitChar(n % 10)>>

--------------------------------------------------------------------------
(* Values: Python's None, int and str *)

NoneV == [t |-> "none", n |-> 0, s |-> <<>>]

IntV(k) == [t |-> "int", n |-> k, s |-> <<>>]

StrV(x) == [t |-> "str", n |-> 0, s |-> x]

\* str(v), as an f-string formats it
Str(v) ==
    CASE v.t = "none" -> <<"N","o","n","e">>
      [] v.t = "int" -> IntToStr(v.n)
      [] v.t = "str" -> v.s

--------------------------------------------------------------------------
(* Tokens *)

NoIndent == -1

Token(type, value, ln) == [type |-> type, value |-> value, line |-> ln, ind |-> NoIndent]

\* SuperHeroLexer.keywords
keywords ==
    { <<<<"i","r","o","n","m","a","n">>, "IRONMAN">>, <<<<"b","a","t","m","a","n">>, "BATMAN">>, <<<<"s","u","p","e","r","m","a","n">>, "SUPERMAN">>,
      <<<<"w","o","n","d","e","r","w","o","m","a","n">>, "WONDERWOMAN">>, <<<<"f","l","a","s","h">>, "FLASH">>,
      <<<<"s","p","i","d","e","r","m","a","n">>, "SPIDERMAN">>, <<<<"t","h","o","r">>, "THOR">>, <<<<"t","h","o","r","n","u","m">>, "THORNUM">>,
      <<<<"h","u","l","k">>, "HULK">>, <<<<"d","o","c","t","o","r","s","t","r","a","n","g","e">>, "DOCTORSTRANGE">>,
      <<<<"b","l","a","c","k","p","a","n","t","h","e","r">>, "BLACKPANTHER">>, <<<<"c","a","p","t","a","i","n","a","m","e","r","i","c","a">>, "CAPTAINAMERICA">>,
      <<<<"v","i","s","i","o","n">>, "VISION">>, <<<<"s","t","a","r","l","o","r","d">>, "STARLORD">>, <<<<"d","e","a","d","p","o","o","l">>, "DEADPOOL">>,
      <<<<"l","o","k","i">>, "LOKI">>, <<<<"f","a","l","c","o","n">>, "FALCON">>, <<<<"h","a","w","k","e","y","e">>, "HAWKEYE">>,
      <<<<"t","h","a","n","o","s">>, "THANOS">>, <<<<"a","d","d">>, "ADD">>, <<<<"s","u","b">>, "SUB">>, <<<<"i","n","t","o">>, "INTO">>,
      <<<<"e","m","p","t","y">>, "EMPTY">> }

IsKeyword(word) == \E kw \in keywords : kw[1] = word

KeywordType(word) == (CHOOSE kw \in keywords : kw[1] = word)[2]

\* SuperHeroLexer.operators
operators ==
    { <<<<">">>, <<">">>>>, <<<<"<">>, <<"<">>>>, <<<<"=">>, <<"=","=">>>>, <<<<"=","=">>, <<"=","=">>>>, <<<<"!","=">>, <<"!","=">>>>,
      <<<<">","=">>, <<">","=">>>>, <<<<"<","=">>, <<"<","=">>>> }

IsOperator(op) == \E o \in operators : o[1] = op

OperatorValue(op) == (CHOOSE o \in operators : o[1] = op)[2]

--------------------------------------------------------------------------
(* Fatal errors: the message printed before sys.exit(1) *)

NoError == [kind |-> "none", line |-> 0]

Err(kind, ln) == [kind |-> kind, line |-> ln]

NoResult == -1

--------------------------------------------------------------------------
(* Lexer: SuperHeroLexer.tokenize *)

RECURSIVE StrScan_NoEscape(_, _)
\* StrScan that gives the backslash no meaning
StrScan_NoEscape(line, k) ==
    IF k < Len(line) /\ Ch(line, k) # "\"" THEN StrScan_NoEscape(line, k + 1) ELSE k

RECURSIVE StrScan(_, _)
\* the inner while of a string literal: from column k to the closing quote or the line end
StrScan(line, k) ==
    IF k < Len(line) /\ Ch(line, k) # "\""
    THEN IF Ch(line, k) = "\\" /\ k + 1 < Len(line)
         THEN StrScan(line, k + 2)
         ELSE StrScan(line, k + 1)
    ELSE k

RECURSIVE NumScan(_, _)
\* while i < len(line) and line[i].isdigit()
NumScan(line, k) ==
    IF k < Len(line) /\ isdigit(Ch(line, k)) THEN NumScan(line, k + 1) ELSE k

IsWordChar(c) == isalnum(c) \/ c = "_" \/ c = "#"

RECURSIVE WordScan(_, _)
\* while i < len(line) and (line[i].isalnum() or line[i] == '_' or line[i] == '#')
WordScan(line, k) ==
    IF k < Len(line) /\ IsWordChar(Ch(line, k)) THEN WordScan(line, k + 1) ELSE k

\* the end column of an operator that starts at column k
OpScan(line, k) ==
    IF k + 1 < Len(line) /\ Ch(line, k + 1) = "=" THEN k + 2 ELSE k + 1

ScanResult(k, toks, err) == [i |-> k, toks |-> toks, err |-> err]

\* a string literal that starts at column k
ScanString(line, k, ln) ==
    LET e == StrScan(line, k + 1)
    IN  IF e < Len(line)
        THEN ScanResult(e + 1, <<Token("STRING", StrV(Slice(line, k + 1, e)), ln)>>, NoError)
        ELSE ScanResult(e, <<>>, Err("unclosed_string", ln))

\* a number that starts at column k
ScanNumber(line, k, ln) ==
    LET e == NumScan(line, k)
    IN  ScanResult(e, <<Token("NUMBER", IntV(PyInt(Slice(line, k, e))), ln)>>, NoError)

\* an identifier, keyword or cell reference that starts at column k
ScanWord(line, k, ln) ==
    LET e == WordScan(line, k)
        word == Slice(line, k, e)
    IN  IF startswith(word, <<"#">>)
        THEN IF IntValid(Tail(word))
             THEN ScanResult(e, <<Token("CELL_REF", IntV(PyInt(Tail(word))), ln)>>, NoError)
             ELSE ScanResult(e, <<>>, Err("invalid_cell_ref", ln))
        ELSE IF IsKeyword(word)
        THEN ScanResult(e, <<Token(KeywordType(word), StrV(word), ln)>>, NoError)
        ELSE ScanResult(e, <<Token("IDENTIFIER", StrV(word), ln)>>, NoError)

\* an operator that starts at column k
ScanOperator(line, k, ln) ==
    LET e == OpScan(line, k)
        op == Slice(line, k, e)
    IN  IF IsOperator(op)
        THEN ScanResult(e, <<Token("OPERATOR", StrV(OperatorValue(op)), ln)>>, NoError)
        ELSE ScanResult(e, <<>>, Err("invalid_operator", ln))

\* one iteration of `while i < len(line)`
ScanStep(line, k, ln) ==
    LET char == Ch(line, k)
    IN  IF isspace(char) THEN ScanResult(k + 1, <<>>, NoError)
        ELSE IF char = "\"" THEN ScanString(line, k, ln)
        ELSE IF isdigit(char) THEN ScanNumber(line, k, ln)
        ELSE IF isalpha(char) \/ char = "_" \/ char = "#" THEN ScanWord(line, k, ln)
        ELSE IF char \in {"<", ">", "=", "!"} THEN ScanOperator(line, k, ln)
        ELSE IF char = ":" THEN ScanResult(k + 1, <<Token("IDENTIFIER", StrV(<<":">>), ln)>>, NoError)
        ELSE ScanResult(k + 1, <<>>, NoError)

\* what the head of `for line_num, line in enumerate(lines, 1)` does with a line
LineClass(line, inComment) ==
    IF IsBlank(line) THEN "blank"
    ELSE IF inComment THEN (IF Contains(line, <<"*","h","e","r","o","e","s">>) THEN "comment_end" ELSE "comment_body")
    ELSE IF Contains(line, <<"h","e","r","o","e","s","*">>) /\ ~Contains(line, <<"*","h","e","r","o","e","s">>) THEN "comment_start"
    ELSE IF startswith(lstrip(line), <<"h","e","r","o",">">>) THEN "line_comment"
    ELSE "scan"

CommentAfter_NeverCloses(cls, inComment) == cls = "comment_start" \/ inComment

\* multiline_comment after the head of the for loop has looked at a line
CommentAfter(cls, inComment) ==
    CASE cls = "comment_end" -> FALSE
      [] cls = "comment_start" -> TRUE
      [] OTHER -> inComment

\* line_tokens[0].indentation = indentation // 4
WithIndent(toks, ind) == <<[toks[1] EXCEPT !.ind = ind \div 4]>> \o Tail(toks)

CurLine == lines[line_num]

LexVars == <<line_num, i, indentation, line_tokens, tokens, multiline_comment>>

ParserVars == <<fp_i, fp_visited, labels, flashes, doctorstranges, current, ast>>

BackVars == <<gen_code, temp_exists, temp_created, toolchain_runs, result>>

\* the for loop takes the next line
LexLine ==
    /\ pc = "lex_line"
    /\ line_num < Len(lines)
    /\ LET line == lines[line_num + 1]
           cls == LineClass(line, multiline_comment)
       IN  /\ line_num' = line_num + 1
           /\ multiline_comment' = CommentAfter(cls, multiline_comment)
           /\ IF cls = "scan"
              THEN /\ indentation' = LeadingSpaces(line)
                   /\ i' = LeadingSpaces(line)
                   /\ line_tokens' = <<>>
                   /\ pc' = "lex_scan"
              ELSE UNCHANGED <<indentation, i, line_tokens, pc>>
    /\ UNCHANGED <<lines, tokens, error>>
    /\ UNCHANGED ParserVars
    /\ UNCHANGED BackVars

\* one iteration of the scan of the current line
LexScan ==
    /\ pc = "lex_scan"
    /\ i < Len(CurLine)
    /\ LET r == ScanStep(CurLine, i, line_num)
       IN  /\ i' = r.i
           /\ IF r.err # NoError
              THEN /\ error' = r.err
                   /\ pc' = "exited"
                   /\ UNCHANGED line_tokens
              ELSE /\ line_tokens' = line_tokens \o r.toks
                   /\ UNCHANGED <<error, pc>>
    /\ UNCHANGED <<lines, line_num, indentation, tokens, multiline_comment>>
    /\ UNCHANGED ParserVars
    /\ UNCHANGED BackVars

\* the scan reached the end of the line: its tokens join the result
LexEndLine ==
    /\ pc = "lex_scan"
    /\ i >= Len(CurLine)
    /\ tokens' = IF line_tokens # <<>>
                 THEN tokens \o WithIndent(line_tokens, indentation)
                 ELSE tokens
    /\ pc' = "lex_line"
    /\ UNCHANGED <<lines, line_num, i, indentation, line_tokens,
                   multiline_comment, error>>
    /\ UNCHANGED ParserVars
    /\ UNCHANGED BackVars

\* tokenize returns; SuperHeroParser(tokens).parse() starts with first_pass
LexReturn ==
    /\ pc = "lex_line"
    /\ line_num = Len(lines)
    /\ pc' = "first_pass"
    /\ UNCHANGED <<lines, error>>
    /\ UNCHANGED LexVars
    /\ UNCHANGED ParserVars
    /\ UNCHANGED BackVars

--------------------------------------------------------------------------
(* Resolver: SuperHeroParser.first_pass *)

\* tokens[k] with Python's 0-based index
Tok(toks, k) == toks[k + 1]

\* the type of tokens[k], or "EOF" when k is past the end
TypeAt(toks, k) == IF k < Len(toks) THEN Tok(toks, k).type ELSE "EOF"

\* name[:-1] if name.endswith(':') else name
StripColon(name) == IF endswith(name, <<":">>) THEN Slice(name, 0, Len(name) - 1) ELSE name

\* getattr(token, 'indentation', 0)
IndentOf(tok) == IF tok.ind = NoIndent THEN 0 ELSE tok.ind

\* a Python dict as <<key, value>> pairs in insertion order
DictHas(d, key) == \E k \in 1..Len(d) : d[k][1] = key

\* d[key] = value
DictSet(d, key, value) ==
    IF DictHas(d, key)
    THEN [k \in 1..Len(d) |-> IF d[k][1] = key THEN <<key, value>> ELSE d[k]]
    ELSE Append(d, <<key, value>>)

\* the test that ends a flash body at tokens[k]
EndsFlashBody(tok) == tok.type \in {"FALCON", "FLASH"} /\ IndentOf(tok) = 0

RECURSIVE FlashBodyEnd(_, _)
\* the inner while of a flash definition: the index at which body capture stops
FlashBodyEnd(toks, k) ==
    IF k < Len(toks) /\ ~EndsFlashBody(Tok(toks, k)) THEN FlashBodyEnd(toks, k + 1) ELSE k

\* how far the falcon branch moves the scan: i += 2 in the branch, then the loop's i += 1
FalconAdvance == 3

ResolverState(k, ls, fs, ds) == [i |-> k, labels |-> ls, flashes |-> fs, doctorstranges |-> ds]

FirstPassFalcon(toks, k, ls, fs, ds) ==
    ResolverState(k + FalconAdvance,
                  IF TypeAt(toks, k + 1) = "IDENTIFIER"
                  THEN ls \cup {StripColon(Tok(toks, k + 1).value.s)} ELSE ls,
                  fs, ds)

FirstPassFlash(toks, k, ls, fs, ds) ==
    IF TypeAt(toks, k + 1) = "IDENTIFIER"
    THEN LET flash_name == StripColon(Tok(toks, k + 1).value.s)
             e == FlashBodyEnd(toks, k + 2)
         IN  ResolverState(e, ls, DictSet(fs, flash_name, Slice(toks, k + 2, e)), ds)
    ELSE ResolverState(k + 1, ls, fs, ds)

\* FirstPassDoctorStrange without the loop's i += 1
FirstPassDoctorStrange_Stays(toks, k, ls, fs, ds) ==
    LET size == IF TypeAt(toks, k + 1) = "NUMBER" THEN Tok(toks, k + 1).value ELSE NoneV
        name == IF TypeAt(toks, k + 1) = "NUMBER"
                THEN (IF TypeAt(toks, k + 2) = "IDENTIFIER" THEN Tok(toks, k + 2).value ELSE NoneV)
                ELSE IF TypeAt(toks, k + 1) = "IDENTIFIER" THEN Tok(toks, k + 1).value
                ELSE NoneV
    IN  ResolverState(k, ls, fs,
                      IF name.t = "str" /\ name.s # <<>> THEN DictSet(ds, name.s, size) ELSE ds)

FirstPassDoctorStrange(toks, k, ls, fs, ds) ==
    LET size == IF TypeAt(toks, k + 1) = "NUMBER" THEN Tok(toks, k + 1).value ELSE NoneV
        name == IF TypeAt(toks, k + 1) = "NUMBER"
                THEN (IF TypeAt(toks, k + 2) = "IDENTIFIER" THEN Tok(toks, k + 2).value ELSE NoneV)
                ELSE IF TypeAt(toks, k + 1) = "IDENTIFIER" THEN Tok(toks, k + 1).value
                ELSE NoneV
    IN  ResolverState(k + 1, ls, fs,
                      IF name.t = "str" /\ name.s # <<>> THEN DictSet(ds, name.s, size) ELSE ds)

\* one iteration of `while i < len(self.tokens)`
FirstPassIter(toks, k, ls, fs, ds) ==
    LET type == Tok(toks, k).type
    IN  IF type = "FALCON" THEN FirstPassFalcon(toks, k, ls, fs, ds)
        ELSE IF type = "FLASH" THEN FirstPassFlash(toks, k, ls, fs, ds)
        ELSE IF type = "DOCTORSTRANGE" THEN FirstPassDoctorStrange(toks, k, ls, fs, ds)
        ELSE ResolverState(k + 1, ls, fs, ds)

FirstPassStep ==
    /\ pc = "first_pass"
    /\ fp_i < Len(tokens)
    /\ LET r == FirstPassIter(tokens, fp_i, labels, flashes, doctorstranges)
       IN  /\ fp_i' = r.i
           /\ labels' = r.labels
           /\ flashes' = r.flashes
           /\ doctorstranges' = r.doctorstranges
    /\ fp_visited' = Append(fp_visited, fp_i)
    /\ UNCHANGED <<lines, pc, current, ast, error>>
    /\ UNCHANGED LexVars
    /\ UNCHANGED BackVars

\* first_pass returns; parse() enters its statement loop
FirstPassDone ==
    /\ pc = "first_pass"
    /\ fp_i >= Len(tokens)
    /\ pc' = "parse"
    /\ UNCHANGED <<lines, error>>
    /\ UNCHANGED LexVars
    /\ UNCHANGED ParserVars
    /\ UNCHANGED BackVars

--------------------------------------------------------------------------
(* Instruction builder: SuperHeroParser.parse and parse_statement *)

\* an instruction (a dict of parse_statement); fields an opcode does not own stay None
Node(type) ==
    [type |-> type, name |-> NoneV, size |-> NoneV, target |-> NoneV, content |-> NoneV,
     text |-> NoneV, args |-> <<>>, left |-> NoneV, op |-> NoneV, right |-> NoneV,
     left_is_cell |-> FALSE, right_is_cell |-> FALSE]

\* parse_statement returned None
NoNode == Node("None")

Parsed(cur, node, err) == [current |-> cur, node |-> node, err |-> err]

\* the opcodes that take no operand, and the instruction type of each
SimpleOps ==
    { <<"IRONMAN", "ironman">>, <<"BATMAN", "batman">>, <<"SUPERMAN", "superman">>,
      <<"WONDERWOMAN", "wonderwoman">>, <<"THOR", "thor">>, <<"THORNUM", "thornum">>,
      <<"DEADPOOL", "deadpool">>, <<"LOKI", "loki">>, <<"THANOS", "thanos">> }

IsSimpleOp(type) == \E o \in SimpleOps : o[1] = type

SimpleNodeType(type) == (CHOOSE o \in SimpleOps : o[1] = type)[2]

ParseHulk(toks, c) ==
    IF TypeAt(toks, c + 1) \in {"STRING", "NUMBER"}
    THEN Parsed(c + 2, [Node("hulk") EXCEPT !.args = <<Tok(toks, c + 1).value>>], NoError)
    ELSE Parsed(c + 1, Node("hulk"), NoError)

ParseDoctorStrange(toks, c) ==
    LET hasSize == TypeAt(toks, c + 1) = "NUMBER"
        size == IF hasSize THEN Tok(toks, c + 1).value ELSE NoneV
        n == IF hasSize THEN c + 2 ELSE c + 1
    IN  IF TypeAt(toks, n) = "IDENTIFIER"
        THEN Parsed(n + 1, [Node("doctorstrange") EXCEPT !.name = Tok(toks, n).value,
                                                         !.size = size], NoError)
        ELSE Parsed(n, NoNode, Err("expected_array_name", Tok(toks, c).line))

ParseBlackPanther(toks, c) ==
    LET hasInto == TypeAt(toks, c + 1) = "INTO"
        hasTarget == hasInto /\ TypeAt(toks, c + 2) \in {"IDENTIFIER", "NUMBER"}
        target == IF hasTarget THEN Tok(toks, c + 2).value ELSE NoneV
        n == IF hasTarget THEN c + 3 ELSE IF hasInto THEN c + 2 ELSE c + 1
        hasContent == TypeAt(toks, n) = "STRING"
        content == IF hasContent THEN Tok(toks, n).value ELSE NoneV
    IN  Parsed(IF hasContent THEN n + 1 ELSE n,
               [Node("blackpanther") EXCEPT !.target = target, !.content = content], NoError)

ParseCaptainAmerica(toks, c) ==
    IF TypeAt(toks, c + 1) = "IDENTIFIER"
    THEN Parsed(c + 2, [Node("captainamerica") EXCEPT !.target = Tok(toks, c + 1).value], NoError)
    ELSE Parsed(c + 1, Node("captainamerica"), NoError)

\* ParseStarLord that reports the line of the token it peeked at, as consume() does
ParseStarLord_PeekLine(toks, c) ==
    IF TypeAt(toks, c + 1) = "STRING"
    THEN Parsed(c + 2, [Node("starlord") EXCEPT !.text = Tok(toks, c + 1).value], NoError)
    ELSE Parsed(c + 1, NoNode,
                Err("expected_string",
                    IF c + 1 < Len(toks) THEN Tok(toks, c + 1).line ELSE 0))

ParseStarLord(toks, c) ==
    IF TypeAt(toks, c + 1) = "STRING"
    THEN Parsed(c + 2, [Node("starlord") EXCEPT !.text = Tok(toks, c + 1).value], NoError)
    ELSE Parsed(c + 1, NoNode, Err("expected_string", Tok(toks, c).line))

ParseFalcon(toks, c) ==
    IF TypeAt(toks, c + 1) = "IDENTIFIER"
    THEN Parsed(c + 2, [Node("falcon") EXCEPT
                            !.name = StrV(StripColon(Tok(toks, c + 1).value.s))], NoError)
    ELSE Parsed(c + 1, Node("falcon"), NoError)

\* ParseHawkeye that leaves the target identifier to the statement loop
ParseHawkeye_NoTarget(toks, c) == Parsed(c + 1, Node("hawkeye"), NoError)

ParseHawkeye(toks, c) ==
    IF TypeAt(toks, c + 1) = "IDENTIFIER"
    THEN Parsed(c + 2, [Node("hawkeye") EXCEPT !.target = Tok(toks, c + 1).value], NoError)
    ELSE Parsed(c + 1, Node("hawkeye"), NoError)

ParseSpiderman(toks, c) ==
    LET hasTarget == TypeAt(toks, c + 1) = "IDENTIFIER"
        target == IF hasTarget THEN Tok(toks, c + 1).value ELSE NoneV
        n1 == IF hasTarget THEN c + 2 ELSE c + 1
        hasLeft == TypeAt(toks, n1) \in {"VISION", "NUMBER"}
        left == IF TypeAt(toks, n1) = "VISION" THEN StrV(<<"v","i","s","i","o","n">>)
                ELSE IF TypeAt(toks, n1) = "NUMBER" THEN Tok(toks, n1).value ELSE NoneV
        n2 == IF hasLeft THEN n1 + 1 ELSE n1
        hasOp == TypeAt(toks, n2) = "OPERATOR"
        op == IF hasOp THEN Tok(toks, n2).value ELSE NoneV
        n3 == IF hasOp THEN n2 + 1 ELSE n2
        hasRight == TypeAt(toks, n3) \in {"EMPTY", "NUMBER", "VISION"}
        right == IF TypeAt(toks, n3) = "EMPTY" THEN StrV(<<"e","m","p","t","y">>)
                 ELSE IF TypeAt(toks, n3) = "NUMBER" THEN Tok(toks, n3).value
                 ELSE IF TypeAt(toks, n3) = "VISION" THEN StrV(<<"v","i","s","i","o","n">>)
                 ELSE NoneV
    IN  Parsed(IF hasRight THEN n3 + 1 ELSE n3,
               [Node("spiderman") EXCEPT !.target = target, !.left = left,
                                         !.op = op, !.right = right], NoError)

ParseAddSub(toks, c) ==
    LET op_type == IF TypeAt(toks, c) = "ADD" THEN "add" ELSE "sub"
        hasLeft == TypeAt(toks, c + 1) \in {"VISION", "NUMBER", "CELL_REF"}
        left == IF TypeAt(toks, c + 1) = "VISION" THEN StrV(<<"v","i","s","i","o","n">>)
                ELSE IF hasLeft THEN Tok(toks, c + 1).value ELSE NoneV
        n1 == IF hasLeft THEN c + 2 ELSE c + 1
        hasRight == TypeAt(toks, n1) \in {"NUMBER", "VISION", "CELL_REF"}
        right == IF TypeAt(toks, n1) = "VISION" THEN StrV(<<"v","i","s","i","o","n">>)
                 ELSE IF hasRight THEN Tok(toks, n1).value ELSE NoneV
    IN  Parsed(IF hasRight THEN n1 + 1 ELSE n1,
               [Node(op_type) EXCEPT !.left = left, !.right = right,
                                     !.left_is_cell = (TypeAt(toks, c + 1) = "CELL_REF"),
                                     !.right_is_cell = (TypeAt(toks, n1) = "CELL_REF")], NoError)

\* ParseIdentifier with the body of a loop skipped at its definition site
ParseIdentifier_SkipsBody(toks, c, fs) ==
    LET name == Tok(toks, c).value
        atDefinition == c > 0 /\ Tok(toks, c - 1).type = "FLASH"
    IN  IF DictHas(fs, name.s)
        THEN Parsed(IF atDefinition THEN FlashBodyEnd(toks, c + 1) ELSE c + 1,
                    [Node("flash_call") EXCEPT !.name = name], NoError)
        ELSE Parsed(c + 1, NoNode, NoError)

ParseIdentifier(toks, c, fs) ==
    LET name == Tok(toks, c).value
    IN  IF DictHas(fs, name.s)
        THEN Parsed(c + 1, [Node("flash_call") EXCEPT !.name = name], NoError)
        ELSE Parsed(c + 1, NoNode, NoError)

\* parse_statement with self.current = c, c not at the end
parse_statement(toks, c, fs) ==
    LET type == Tok(toks, c).type
    IN  IF IsSimpleOp(type) THEN Parsed(c + 1, Node(SimpleNodeType(type)), NoError)
        ELSE IF type = "HULK" THEN ParseHulk(toks, c)
        ELSE IF type = "DOCTORSTRANGE" THEN ParseDoctorStrange(toks, c)
        ELSE IF type = "BLACKPANTHER" THEN ParseBlackPanther(toks, c)
        ELSE IF type = "CAPTAINAMERICA" THEN ParseCaptainAmerica(toks, c)
        ELSE IF type = "STARLORD" THEN ParseStarLord(toks, c)
        ELSE IF type = "FALCON" THEN ParseFalcon(toks, c)
        ELSE IF type = "HAWKEYE" THEN ParseHawkeye(toks, c)
        ELSE IF type = "SPIDERMAN" THEN ParseSpiderman(toks, c)
        ELSE IF type \in {"ADD", "SUB"} THEN ParseAddSub(toks, c)
        ELSE IF type = "IDENTIFIER" THEN ParseIdentifier(toks, c, fs)
        ELSE Parsed(c + 1, NoNode, NoError)

\* one iteration of `while not self.is_at_end()` in parse()
ParseStatement ==
    /\ pc = "parse"
    /\ current < Len(tokens)
    /\ LET r == parse_statement(tokens, current, flashes)
       IN  /\ current' = r.current
           /\ IF r.err # NoError
              THEN /\ error' = r.err
                   /\ pc' = "exited"
                   /\ UNCHANGED ast
              ELSE /\ ast' = IF r.node # NoNode THEN Append(ast, r.node) ELSE ast
                   /\ UNCHANGED <<error, pc>>
    /\ UNCHANGED <<lines, fp_i, fp_visited, labels, flashes, doctorstranges>>
    /\ UNCHANGED LexVars
    /\ UNCHANGED BackVars

\* parse() returns code_blocks; CodeGenerator(ast, parser.doctorstranges) is built
ParseDone ==
    /\ pc = "parse"
    /\ current >= Len(tokens)
    /\ pc' = "generate"
    /\ UNCHANGED <<lines, error>>
    /\ UNCHANGED LexVars
    /\ UNCHANGED ParserVars
    /\ UNCHANGED BackVars

--------------------------------------------------------------------------
(* Code generator: CodeGenerator.generate and generate_node *)

\* The fixed runtime text of generate(), each block one opaque entry
HeadersBlock == <<"[#include <stdio.h> <stdlib.h> <string.h>]">>

\* <windows.h> with the sleep macro when os.name is 'nt', else <unistd.h>
PlatformHeadersBlock == <<"[platform headers]">>

GlobalsBlock == <<"[#include <stdint.h>; TAPE_SIZE 30000; MAX_INPUT 1024; tape, ptr, input_buffer; forward declarations]">>

HelpersBlock == <<"[helper functions thor, thornum, hulk, blackpanther, captainamerica]", "\n">> \o <<"i","n","t"," ","m","a","i","n","(",")"," ","{">> \o <<"\n">>

FooterBlock == <<" "," "," "," ","r","e","t","u","r","n"," ","0",";">> \o <<"\n">> \o <<"}">>

\* the capacity of an array declared without a size
DefaultCapacity == 1024

\* self.indent() with indent_level = 1
Indent == <<" "," "," "," ">>

\* f"uint8_t doctorstrange_{name}[{size_val}] = {{0}};"
ArrayDecl(name, size) ==
    <<"u","i","n","t","8","_","t"," ","d","o","c","t","o","r","s","t","r","a","n","g","e","_">> \o name \o <<"[">>
        \o Str(IF size.t # "none" THEN size ELSE IntV(DefaultCapacity)) \o <<"]"," ","="," ","{","0","}",";">>

\* the entries appended by `for name, size in self.doctorstranges.items()`
ArrayDecls(ds) == [k \in 1..Len(ds) |-> ArrayDecl(ds[k][1], ds[k][2])]

GenHulk(node) ==
    IF node.args # <<>> /\ node.args[1].t = "int"
    THEN <<Indent \o <<"h","u","l","k","(">> \o Str(node.args[1]) \o <<","," ","0",")",";">>>>
    ELSE IF node.args # <<>> /\ node.args[1].t = "str"
    THEN <<Indent \o <<"h","u","l","k","(","-","1",","," ","'">> \o node.args[1].s \o <<"'",")",";">>>>
    ELSE <<Indent \o <<"h","u","l","k","(","-","1",","," ","0",")",";">>>>

\* GenSpiderman with the `empty` marker formatted like any other right operand
GenSpiderman_EmptyVerbatim(node) ==
    LET left_expr == IF node.left = StrV(<<"v","i","s","i","o","n">>) THEN <<"t","a","p","e","[","p","t","r","]">> ELSE Str(node.left)
        right_expr == IF node.right = StrV(<<"v","i","s","i","o","n">>) THEN <<"t","a","p","e","[","p","t","r","]">> ELSE Str(node.right)
    IN  << Indent \o <<"i","f"," ","(">> \o left_expr \o <<" ">> \o Str(node.op) \o <<" ">> \o right_expr \o <<")"," ","{">>,
           Indent \o <<" "," "," "," ","g","o","t","o"," ">> \o Str(node.target) \o <<";">>,
           Indent \o <<"}">> >>

GenSpiderman(node) ==
    LET left_expr == IF node.left = StrV(<<"v","i","s","i","o","n">>) THEN <<"t","a","p","e","[","p","t","r","]">> ELSE Str(node.left)
        right_expr == IF node.right = StrV(<<"e","m","p","t","y">>) THEN <<"0">>
                      ELSE IF node.right = StrV(<<"v","i","s","i","o","n">>) THEN <<"t","a","p","e","[","p","t","r","]">>
                      ELSE Str(node.right)
    IN  << Indent \o <<"i","f"," ","(">> \o left_expr \o <<" ">> \o Str(node.op) \o <<" ">> \o right_expr \o <<")"," ","{">>,
           Indent \o <<" "," "," "," ","g","o","t","o"," ">> \o Str(node.target) \o <<";">>,
           Indent \o <<"}">> >>

\* add and sub differ in the assignment operator only
GenAddSub(node, assign) ==
    LET left_expr == IF node.left = StrV(<<"v","i","s","i","o","n">>) THEN <<"t","a","p","e","[","p","t","r","]">>
                     ELSE <<"t","a","p","e","[">> \o Str(node.left) \o <<"]">>
        right_expr == IF node.right = StrV(<<"v","i","s","i","o","n">>) THEN <<"t","a","p","e","[","p","t","r","]">>
                      ELSE IF node.right_is_cell THEN <<"t","a","p","e","[">> \o Str(node.right) \o <<"]">>
                      ELSE Str(node.right)
    IN  <<Indent \o left_expr \o <<" ">> \o assign \o <<" ">> \o right_expr \o <<";">>>>

\* target_expr of a blackpanther instruction
StoreTargetExpr(target, ds) ==
    IF target.t = "none" THEN <<"t","a","p","e"," ","+"," ","p","t","r">>
    ELSE IF target.t = "str" /\ DictHas(ds, target.s) THEN <<"d","o","c","t","o","r","s","t","r","a","n","g","e","_">> \o target.s
    ELSE <<"t","a","p","e"," ","+"," ">> \o Str(target)

\* source_expr of a captainamerica instruction
PrintSourceExpr(target, ds) ==
    IF target.t = "none" THEN <<"t","a","p","e"," ","+"," ","p","t","r">>
    ELSE IF target.t = "str" /\ DictHas(ds, target.s) THEN <<"d","o","c","t","o","r","s","t","r","a","n","g","e","_">> \o target.s
    ELSE <<"t","a","p","e"," ","+"," ","p","t","r">>

GenBlackPanther(node, ds) ==
    LET content_expr == IF node.content.t # "none"
                        THEN <<"\"">> \o node.content.s \o <<"\"">> ELSE <<"N","U","L","L">>
    IN  <<Indent \o <<"b","l","a","c","k","p","a","n","t","h","e","r","(">> \o StoreTargetExpr(node.target, ds) \o <<","," ">>
              \o content_expr \o <<")",";">>>>

GenCaptainAmerica(node, ds) ==
    <<Indent \o <<"c","a","p","t","a","i","n","a","m","e","r","i","c","a","(">> \o PrintSourceExpr(node.target, ds) \o <<")",";">>>>

\* generate_node: the entries appended for one instruction
generate_node(node, ds) ==
    CASE node.type = "ironman" -> <<Indent \o <<"t","a","p","e","[","p","t","r","]","+","+",";">>>>
      [] node.type = "batman" -> <<Indent \o <<"t","a","p","e","[","p","t","r","]","-","-",";">>>>
      [] node.type = "superman" -> <<Indent \o <<"p","t","r","+","+",";">>>>
      [] node.type = "wonderwoman" -> <<Indent \o <<"p","t","r","-","-",";">>>>
      [] node.type = "hulk" -> GenHulk(node)
      [] node.type = "thor" -> <<Indent \o <<"t","h","o","r","(",")",";">>>>
      [] node.type = "thornum" -> <<Indent \o <<"t","h","o","r","n","u","m","(",")",";">>>>
      [] node.type = "starlord" -> <<Indent \o <<"p","r","i","n","t","f","(","\"">> \o Str(node.text) \o <<"\\","n","\"",")",";">>>>
      [] node.type = "deadpool" -> <<Indent \o <<"p","t","r"," ","="," ","0",";">>>>
      [] node.type = "loki" -> << Indent \o <<"t","a","p","e","[","p","t","r","]"," ","="," ","0",";">>,
                                  Indent \o <<"p","r","i","n","t","f","(","\"","L","o","k","i"," ","c","l","e","a","r","e","d"," ","c","e","l","l"," ","%","d","\\","n","\"",","," ","p","t","r",")",";">> >>
      [] node.type = "falcon" -> <<Str(node.name) \o <<":">>>>
      [] node.type = "hawkeye" -> <<Indent \o <<"g","o","t","o"," ">> \o Str(node.target) \o <<";">>>>
      [] node.type = "spiderman" -> GenSpiderman(node)
      [] node.type = "add" -> GenAddSub(node, <<"+","=">>)
      [] node.type = "sub" -> GenAddSub(node, <<"-","=">>)
      [] node.type = "doctorstrange" -> <<>>
      [] node.type = "blackpanther" -> GenBlackPanther(node, ds)
      [] node.type = "captainamerica" -> GenCaptainAmerica(node, ds)
      [] node.type = "flash_call" -> <<Indent \o <<"/","/"," ","F","l","a","s","h"," ","l","o","o","p",":"," ">> \o Str(node.name)>>
      [] node.type = "thanos" -> << Indent \o <<"p","r","i","n","t","f","(","\"","T","h","a","n","o","s"," ","s","n","a","p","p","e","d"," ","h","i","s"," ","f","i","n","g","e","r","s",".",".",".","\\","n","\"",")",";">>,
                                    Indent \o <<"r","e","t","u","r","n"," ","0",";">> >>
      [] OTHER -> <<>>

RECURSIVE GenBody_Reversed(_, _)
\* GenBody that puts each instruction's entries before those of the instructions before it
GenBody_Reversed(nodes, ds) ==
    IF nodes = <<>> THEN <<>>
    ELSE GenBody_Reversed(Tail(nodes), ds) \o generate_node(Head(nodes), ds)

RECURSIVE GenBody(_, _)
\* `for node in self.ast: self.generate_node(node)`
GenBody(nodes, ds) ==
    IF nodes = <<>> THEN <<>>
    ELSE generate_node(Head(nodes), ds) \o GenBody(Tail(nodes), ds)

\* self.code when generate() reaches its return
GenEntries(nodes, ds) ==
    <<HeadersBlock, PlatformHeadersBlock, GlobalsBlock>>
        \o ArrayDecls(ds) \o <<HelpersBlock>> \o GenBody(nodes, ds) \o <<FooterBlock>>

RECURSIVE JoinNL(_)
\* "\n".join(entries)
JoinNL(entries) ==
    IF entries = <<>> THEN <<>>
    ELSE IF Len(entries) = 1 THEN entries[1]
    ELSE entries[1] \o <<"\n">> \o JoinNL(Tail(entries))

\* the text generate() returns
c_code == JoinNL(gen_code)

Generate ==
    /\ pc = "generate"
    /\ gen_code' = GenEntries(ast, doctorstranges)
    /\ pc' = "write"
    /\ UNCHANGED <<lines, temp_exists, temp_created, toolchain_runs, error, result>>
    /\ UNCHANGED LexVars
    /\ UNCHANGED ParserVars

--------------------------------------------------------------------------
(* Driver: compile_superhero from the temporary file on *)

\* tempfile.NamedTemporaryFile(suffix='.c', delete=False) and the write of c_code
WriteTemp ==
    /\ pc = "write"
    /\ temp_exists' = TRUE
    /\ temp_created' = TRUE
    /\ pc' = "toolchain"
    /\ UNCHANGED <<lines, gen_code, toolchain_runs, error, result>>
    /\ UNCHANGED LexVars
    /\ UNCHANGED ParserVars

\* os.name of the host
Hosts == {"posix", "nt"}

\* what the host can answer in the try block: whether a compiler is on the PATH
\* (shutil.which), and how subprocess.run and os.chmod end
ToolchainOutcomes == {"not_found", "raises", "nonzero", "chmod_raises", "success"}

\* the value the try block returns, and whether it called subprocess.run
TryBlock(os, outcome) ==
    IF os = "nt" /\ outcome = "not_found" THEN [ret |-> 1, ran |-> FALSE]
    ELSE IF outcome \in {"not_found", "raises"} THEN [ret |-> 1, ran |-> TRUE]
    ELSE IF outcome = "nonzero" THEN [ret |-> 1, ran |-> TRUE]
    ELSE IF os # "nt" /\ outcome = "chmod_raises" THEN [ret |-> 1, ran |-> TRUE]
    ELSE [ret |-> 0, ran |-> TRUE]

\* the try block up to its return or its except clause
Toolchain ==
    /\ pc = "toolchain"
    /\ \E os \in Hosts, outcome \in ToolchainOutcomes :
          LET r == TryBlock(os, outcome)
          IN  /\ result' = r.ret
              /\ toolchain_runs' = IF r.ran THEN toolchain_runs + 1 ELSE toolchain_runs
    /\ pc' = "finally"
    /\ UNCHANGED <<lines, gen_code, temp_exists, temp_created, error>>
    /\ UNCHANGED LexVars
    /\ UNCHANGED ParserVars

\* AfterUnlink of a cleanup that runs on the success path only
AfterUnlink_OnSuccessOnly(exists, ret) == exists /\ ret # 0

\* whether the finally clause leaves the temporary file on disk
AfterUnlink(exists, ret) == FALSE

\* the finally clause: os.unlink(temp_filename), then the function returns
Finally ==
    /\ pc = "finally"
    /\ temp_exists' = AfterUnlink(temp_exists, result)
    /\ pc' = "returned"
    /\ UNCHANGED <<lines, gen_code, temp_created, toolchain_runs, error, result>>
    /\ UNCHANGED LexVars
    /\ UNCHANGED ParserVars

--------------------------------------------------------------------------
(* The checked source programs *)

\* all sequences over S of length 0..n
SeqsUpTo(S, n) == UNION {[1..k -> S] : k \in 0..n}

RECURSIVE JoinSp(_)
\* the words of a line joined by single spaces
JoinSp(words) ==
    IF words = <<>> THEN <<>>
    ELSE IF Len(words) = 1 THEN words[1]
    ELSE words[1] \o <<" ">> \o JoinSp(Tail(words))

\* the keywords of the statements that take no operand
OperandLessWords ==
    {<<"i","r","o","n","m","a","n">>, <<"b","a","t","m","a","n">>, <<"s","u","p","e","r","m","a","n">>, <<"w","o","n","d","e","r","w","o","m","a","n">>, <<"t","h","o","r">>, <<"t","h","o","r","n","u","m">>, <<"d","e","a","d","p","o","o","l">>, <<"l","o","k","i">>}

\* programs of 1..MaxOps operand-less statements, one per line or all on one line
OpSources ==
    LET progs == SeqsUpTo(OperandLessWords, MaxOps) \ {<<>>}
    IN  progs \cup {<<JoinSp(p)>> : p \in progs}

\* lines that set the scene for the statement after them
ContextLines ==
    { <<"f","a","l","c","o","n"," ","L",":">>, <<"f","l","a","s","h"," ","N">>, <<"d","o","c","t","o","r","s","t","r","a","n","g","e"," ","5"," ","a","r","r">>, <<" "," "," "," ","i","r","o","n","m","a","n">>, <<"h","e","r","o","e","s","*"," ","t","h","o","r">> }

\* statement lines: every opcode with its operand forms, comments and lexical edge cases
StatementLines ==
    { <<"t","h","o","r">>, <<"t","h","a","n","o","s">>, <<"l","o","k","i"," ","i","r","o","n","m","a","n">>,
      <<"h","u","l","k">>, <<"h","u","l","k"," ","7">>, <<"h","u","l","k"," ","\"","a","\"">>, <<"h","u","l","k"," ","\"","a","b","\"">>,
      <<"d","o","c","t","o","r","s","t","r","a","n","g","e"," ","5"," ","a","r","r">>, <<"d","o","c","t","o","r","s","t","r","a","n","g","e"," ","1","2"," ","a","r","r">>, <<"d","o","c","t","o","r","s","t","r","a","n","g","e"," ","a","r","r">>,
      <<"d","o","c","t","o","r","s","t","r","a","n","g","e">>, <<"d","o","c","t","o","r","s","t","r","a","n","g","e"," ","5">>, <<"t","h","o","r"," ","d","o","c","t","o","r","s","t","r","a","n","g","e"," ","5"," ","t","h","o","r">>,
      <<"b","l","a","c","k","p","a","n","t","h","e","r">>, <<"b","l","a","c","k","p","a","n","t","h","e","r"," ","\"","h","i","\"">>, <<"b","l","a","c","k","p","a","n","t","h","e","r"," ","i","n","t","o"," ","a","r","r"," ","\"","h","i","\"">>,
      <<"b","l","a","c","k","p","a","n","t","h","e","r"," ","i","n","t","o"," ","3">>, <<"b","l","a","c","k","p","a","n","t","h","e","r"," ","i","n","t","o"," ","f","o","o">>,
      <<"c","a","p","t","a","i","n","a","m","e","r","i","c","a">>, <<"c","a","p","t","a","i","n","a","m","e","r","i","c","a"," ","a","r","r">>, <<"c","a","p","t","a","i","n","a","m","e","r","i","c","a"," ","f","o","o">>,
      <<"s","t","a","r","l","o","r","d"," ","\"","h","i","\"">>, <<"s","t","a","r","l","o","r","d">>, <<"s","t","a","r","l","o","r","d"," ","5">>, <<"t","h","o","r"," ","s","t","a","r","l","o","r","d">>,
      <<"f","a","l","c","o","n"," ","L",":">>, <<"f","a","l","c","o","n">>, <<"h","a","w","k","e","y","e"," ","L">>, <<"h","a","w","k","e","y","e">>, <<"f","a","l","c","o","n"," ","L"," ","h","a","w","k","e","y","e"," ","L">>,
      <<"f","a","l","c","o","n"," ","L"," ","d","o","c","t","o","r","s","t","r","a","n","g","e"," ","5"," ","a","r","r">>, <<"f","a","l","c","o","n"," ","L",":"," ","d","o","c","t","o","r","s","t","r","a","n","g","e"," ","a","r","r">>,
      <<"f","a","l","c","o","n"," ","N",":"," ","h","a","w","k","e","y","e"," ","N">>,
      <<"s","p","i","d","e","r","m","a","n"," ","L"," ","v","i","s","i","o","n"," ",">"," ","0">>, <<"s","p","i","d","e","r","m","a","n"," ","L"," ","v","i","s","i","o","n"," ",">"," ","e","m","p","t","y">>, <<"s","p","i","d","e","r","m","a","n"," ","N"," ","v","i","s","i","o","n"," ",">"," ","0">>,
      <<"s","p","i","d","e","r","m","a","n"," ","N"," ","v","i","s","i","o","n"," ",">"," ","e","m","p","t","y">>, <<"s","p","i","d","e","r","m","a","n"," ","L"," ","3"," ","<","="," ","v","i","s","i","o","n">>,
      <<"s","p","i","d","e","r","m","a","n"," ","L">>, <<"s","p","i","d","e","r","m","a","n"," ","v","i","s","i","o","n"," ","=">>, <<"s","p","i","d","e","r","m","a","n">>,
      <<"a","d","d"," ","v","i","s","i","o","n"," ","1">>, <<"s","u","b"," ","#","2"," ","v","i","s","i","o","n">>, <<"a","d","d"," ","#","1","_","0"," ","#","x">>, <<"a","d","d">>,
      <<"f","l","a","s","h"," ","N">>, <<"N">>, <<"t","h","o","r"," ","f","l","a","s","h"," ","N">>, <<" "," "," "," ","f","a","l","c","o","n"," ","L",":">>, <<" "," "," "," ","f","l","a","s","h"," ","N"," ","t","h","o","r">>,
      <<"<",">">>, <<">","=">>, <<"<","=">>, <<"=","=">>, <<"!","=">>, <<"=">>, <<"!">>, <<"t","h","o","r"," ","!"," ","\"","a","b","c">>,
      <<"\"","a","b","c">>, <<"\"","a","\\","\"","b","\"">>, <<"\"","a","b","\\">>, <<"\"","a","\\","\"">>, <<"\"","a","b","\""," ","\"","c">>, <<"t","h","o","r"," ","\"","a","\\","\\","\""," ","0","0","7">>,
      <<"h","e","r","o",">"," ","h","e","r","o","e","s","*">>, <<" "," ","h","e","r","o",">"," ","t","h","o","r">>, <<"h","e","r","o","e","s","*"," ","t","h","o","r">>, <<"t","h","o","r"," ","*","h","e","r","o","e","s"," ","t","h","o","r">>,
      <<"h","e","r","o","e","s","*"," ","x"," ","*","h","e","r","o","e","s"," ","t","h","o","r">>, <<"t","h","o","r",","," ","i","r","o","n","m","a","n",".">> }

\* programs of up to MaxLines context lines followed by one statement line
LineSources ==
    {ctx \o <<st>> : ctx \in SeqsUpTo(ContextLines, MaxLines), st \in StatementLines}

\* hand-picked programs: statements, comment regions and loop bodies that span lines
ExtraSources ==
    { <<<<"s","t","a","r","l","o","r","d">>, <<"5">>>>, <<<<"t","h","o","r">>, <<"s","t","a","r","l","o","r","d">>, <<"t","h","o","r"," ","\"","h","i","\"">>>>,
      <<<<>>, <<"d","o","c","t","o","r","s","t","r","a","n","g","e"," ","5">>, <<"t","h","o","r">>>>, <<<<"d","o","c","t","o","r","s","t","r","a","n","g","e">>, <<"\"","a","r","r","\"">>>>,
      <<<<"f","a","l","c","o","n"," ","L",":">>, <<"i","r","o","n","m","a","n">>, <<>>, <<"h","a","w","k","e","y","e"," ","L">>>>, <<<<"i","r","o","n","m","a","n">>, <<"i","r","o","n","m","a","n">>, <<"t","h","o","r">>>>,
      <<<<>>, <<"f","a","l","c","o","n"," ","L">>, <<"d","o","c","t","o","r","s","t","r","a","n","g","e"," ","a","r","r">>>>,
      <<<<"h","e","r","o","e","s","*"," ","t","h","o","r">>, <<"i","r","o","n","m","a","n">>, <<"t","h","o","r"," ","*","h","e","r","o","e","s"," ","t","h","o","r">>, <<"b","a","t","m","a","n">>>>,
      <<<<"h","e","r","o",">"," ","h","e","r","o","e","s","*">>, <<"t","h","o","r">>>>, <<<<"h","e","r","o","e","s","*"," ","t","h","o","r">>, <<"h","e","r","o",">"," ","*","h","e","r","o","e","s">>, <<"t","h","o","r">>>>,
      <<<<"f","l","a","s","h"," ","N">>, <<" "," "," "," ","i","r","o","n","m","a","n">>, <<" "," "," "," ","t","h","o","r">>, <<"f","a","l","c","o","n"," ","L",":">>, <<"N">>>>,
      <<<<"f","l","a","s","h"," ","N">>, <<" "," "," "," ","i","r","o","n","m","a","n">>, <<"t","h","o","r"," ","f","l","a","s","h"," ","N">>, <<"l","o","k","i">>, <<"N">>>> }

Sources == OpSources \cup LineSources \cup ExtraSources

--------------------------------------------------------------------------
(* The state machine *)

Init ==
    /\ lines \in Sources
    /\ pc = "lex_line"
    /\ line_num = 0
    /\ i = 0
    /\ indentation = 0
    /\ line_tokens = <<>>
    /\ tokens = <<>>
    /\ multiline_comment = FALSE
    /\ fp_i = 0
    /\ fp_visited = <<>>
    /\ labels = {}
    /\ flashes = <<>>
    /\ doctorstranges = <<>>
    /\ current = 0
    /\ ast = <<>>
    /\ gen_code = <<>>
    /\ temp_exists = FALSE
    /\ temp_created = FALSE
    /\ toolchain_runs = 0
    /\ error = NoError
    /\ result = NoResult

Next ==
    \/ LexLine
    \/ LexScan
    \/ LexEndLine
    \/ LexReturn
    \/ FirstPassStep
    \/ FirstPassDone
    \/ ParseStatement
    \/ ParseDone
    \/ Generate
    \/ WriteTemp
    \/ Toolchain
    \/ Finally

Spec == Init /\ [][Next]_vars


\* the interpreter runs the compiler's one thread to the end: a step that can be taken
\* is taken
LiveSpec == Spec /\ WF_vars(Next)

--------------------------------------------------------------------------
(* Vocabulary of the properties, read off the source text and the output *)

\* the positions of compile_superhero at which generate() has returned
AfterGenerate == {"write", "toolchain", "finally", "returned"}

RECURSIVE SplitWords(_, _)
\* the maximal runs of non-space characters of a line, left to right
SplitWords(line, word) ==
    IF line = <<>> THEN (IF word = <<>> THEN <<>> ELSE <<word>>)
    ELSE IF Head(line) = " "
    THEN (IF word = <<>> THEN <<>> ELSE <<word>>) \o SplitWords(Tail(line), <<>>)
    ELSE SplitWords(Tail(line), Append(word, Head(line)))

RECURSIVE SourceWords(_)
\* the words of a source text, line after line
SourceWords(ls) ==
    IF ls = <<>> THEN <<>> ELSE SplitWords(Head(ls), <<>>) \o SourceWords(Tail(ls))

\* no line of the source opens a block comment or is a line comment
NoComments(ls) ==
    \A k \in 1..Len(ls) : ~Contains(ls[k], <<"h","e","r","o","e","s","*">>) /\ ~Contains(ls[k], <<"h","e","r","o",">">>)

LastLine(ls) == ls[Len(ls)]

\* the entries of the generated entry point, between its opening and its trailing return
MainBody(code) ==
    LET h == CHOOSE k \in 1..Len(code) : code[k] = HelpersBlock
    IN  SubSeq(code, h + 1, Len(code) - 1)

\* the entries generated before the helper functions and after the fixed globals
BufferDecls(code) ==
    LET h == CHOOSE k \in 1..Len(code) : code[k] = HelpersBlock
    IN  SubSeq(code, 4, h - 1)

SeqEndsWith(s, t) == Len(s) >= Len(t) /\ SubSeq(s, Len(s) - Len(t) + 1, Len(s)) = t

Entries(s) == {s[k] : k \in 1..Len(s)}

LabelNames == {<<"L">>, <<"N">>}

--------------------------------------------------------------------------
(* C1 *)

\* the conditional statement `if (tape[ptr] > 0) goto name`
CondJumpOnPositive(name) ==
    << <<" "," "," "," ","i","f"," ","(","t","a","p","e","[","p","t","r","]"," ",">"," ","0",")"," ","{">>, <<" "," "," "," "," "," "," "," ","g","o","t","o"," ">> \o name \o <<";">>, <<" "," "," "," ","}">> >>

\* C1: a last source line `spiderman <label> vision > 0`, lexed, built and generated,
\* ends the entry point with a conditional that compares tape[ptr] with the literal 0
\* and jumps to <label>; with `empty` for `0` the generated conditional is the same.
C1_CondJumpLowering ==
    \A name \in LabelNames, rhs \in {<<"0">>, <<"e","m","p","t","y">>} :
        ( /\ pc \in AfterGenerate
          /\ NoComments(lines)
          /\ LastLine(lines) = <<"s","p","i","d","e","r","m","a","n"," ">> \o name \o <<" ","v","i","s","i","o","n"," ",">"," ">> \o rhs )
        => SeqEndsWith(MainBody(gen_code), CondJumpOnPositive(name))

C1_Witness ==
    /\ pc = "returned"
    /\ lines = <<<<"f","a","l","c","o","n"," ","L",":">>, <<"s","p","i","d","e","r","m","a","n"," ","L"," ","v","i","s","i","o","n"," ",">"," ","e","m","p","t","y">>>>
    /\ MainBody(gen_code) = <<<<"L",":">>>> \o CondJumpOnPositive(<<"L">>)

--------------------------------------------------------------------------
(* C2 *)

\* the lexer is done with the only line of a one-line source
LexedOneLine(text) == lines = <<text>> /\ pc \notin {"lex_line", "lex_scan"}

\* C2: a line `<>` makes tokenize abort with the invalid-operator error; each of
\* `>=`, `<=`, `==`, `!=`, `=` yields exactly one operator token, and `=` yields the
\* value that `==` yields.
C2_OperatorSpellings ==
    /\ LexedOneLine(<<"<",">">>) => (pc = "exited" /\ error = Err("invalid_operator", 1))
    /\ \A op \in {<<">","=">>, <<"<","=">>, <<"=","=">>, <<"!","=">>} :
          LexedOneLine(op) =>
              ( /\ pc # "exited"
                /\ Len(tokens) = 1
                /\ tokens[1].type = "OPERATOR"
                /\ tokens[1].value = StrV(op) )
    /\ LexedOneLine(<<"=">>) =>
          ( /\ pc # "exited"
            /\ Len(tokens) = 1
            /\ tokens[1].type = "OPERATOR"
            /\ tokens[1].value = StrV(<<"=","=">>) )

--------------------------------------------------------------------------
(* C3 *)

\* the array-declaration instructions of the program
ArrayStatements == {k \in 1..Len(ast) : ast[k].type = "doctorstrange"}

\* C3: every array-declaration statement of the program has, in the generated source,
\* a buffer declaration for its name with its declared size, or with 1024 when it
\* gives no size (programs that declare a name once).
C3_EveryArrayDeclared ==
    ( /\ pc \in AfterGenerate
      /\ \A a, b \in ArrayStatements : ast[a].name = ast[b].name => a = b )
    => \A k \in ArrayStatements :
           LET size == IF ast[k].size.t = "int" THEN IntToStr(ast[k].size.n) ELSE <<"1","0","2","4">>
           IN  <<"u","i","n","t","8","_","t"," ","d","o","c","t","o","r","s","t","r","a","n","g","e","_">> \o ast[k].name.s \o <<"[">> \o size \o <<"]"," ","="," ","{","0","}",";">>
                   \in Entries(BufferDecls(gen_code))

--------------------------------------------------------------------------
(* C4 *)

\* positions of a word in the source
WordAt(word) == {k \in 1..Len(SourceWords(lines)) : SourceWords(lines)[k] = word}

\* the source declares `falcon name:` once, jumps with `hawkeye name` once and later,
\* and holds no other statement that makes a label or a jump
DeclaresThenJumps(name) ==
    LET words == SourceWords(lines)
    IN  /\ NoComments(lines)
        /\ Cardinality(WordAt(<<"f","a","l","c","o","n">>)) = 1
        /\ Cardinality(WordAt(<<"h","a","w","k","e","y","e">>)) = 1
        /\ WordAt(<<"s","p","i","d","e","r","m","a","n">>) = {}
        /\ \E f \in WordAt(<<"f","a","l","c","o","n">>), h \in WordAt(<<"h","a","w","k","e","y","e">>) :
              /\ f + 1 < h
              /\ h + 1 <= Len(words)
              /\ words[f + 1] = name \o <<":">>
              /\ words[h + 1] = name

\* the label statements and the jump statements of the generated entry point
LabelStatements(body) == {k \in 1..Len(body) : endswith(body[k], <<":">>)}

JumpStatements(body) == {k \in 1..Len(body) : startswith(body[k], <<" "," "," "," ","g","o","t","o"," ">>)}

\* C4: a source that declares `falcon L:` and later jumps with `hawkeye L` generates
\* exactly one label statement and one jump statement, `L:` and `goto L;`, with the
\* same identifier L.
C4_LabelRoundTrip ==
    \A name \in LabelNames :
        (pc \in AfterGenerate /\ DeclaresThenJumps(name)) =>
            LET body == MainBody(gen_code)
            IN  /\ Cardinality(LabelStatements(body)) = 1
                /\ Cardinality(JumpStatements(body)) = 1
                /\ \A k \in LabelStatements(body) : body[k] = name \o <<":">>
                /\ \A k \in JumpStatements(body) : body[k] = <<" "," "," "," ","g","o","t","o"," ">> \o name \o <<";">>
                /\ \A l \in LabelStatements(body), j \in JumpStatements(body) : l < j

C4_Witness ==
    /\ pc = "returned"
    /\ lines = <<<<"f","a","l","c","o","n"," ","L",":">>, <<"i","r","o","n","m","a","n">>, <<>>, <<"h","a","w","k","e","y","e"," ","L">>>>
    /\ DeclaresThenJumps(<<"L">>)
    /\ MainBody(gen_code) = <<<<"L",":">>, <<" "," "," "," ","t","a","p","e","[","p","t","r","]","+","+",";">>, <<" "," "," "," ","g","o","t","o"," ","L",";">>>>

--------------------------------------------------------------------------
(* C5 *)

\* the address the claim gives a store or print target: the cursor cell for no target,
\* the array's buffer for an array name, else the tape at the offset the target gives
ClaimedAddress(target) ==
    IF target.t = "none" THEN <<"t","a","p","e"," ","+"," ","p","t","r">>
    ELSE IF target.t = "str" /\ DictHas(doctorstranges, target.s)
    THEN <<"d","o","c","t","o","r","s","t","r","a","n","g","e","_">> \o target.s
    ELSE <<"t","a","p","e"," ","+"," ">> \o Str(target)

\* C5: blackpanther and captainamerica address their target in the same way: the cursor
\* cell (tape + ptr) without a target, the array's buffer for a name of the array table,
\* and the tape at the offset the target gives for any other target.
C5_SameAddressing ==
    pc \in AfterGenerate =>
        \A k \in 1..Len(ast) :
            /\ ast[k].type = "blackpanther" =>
                  \E e \in Entries(MainBody(gen_code)) :
                      startswith(e, <<" "," "," "," ","b","l","a","c","k","p","a","n","t","h","e","r","(">> \o ClaimedAddress(ast[k].target) \o <<","," ">>)
            /\ ast[k].type = "captainamerica" =>
                  <<" "," "," "," ","c","a","p","t","a","i","n","a","m","e","r","i","c","a","(">> \o ClaimedAddress(ast[k].target) \o <<")",";">>
                      \in Entries(MainBody(gen_code))

--------------------------------------------------------------------------
(* C6 *)

\* the call the claim gives a hulk instruction
ClaimedHulkCall(args) ==
    IF args = <<>> THEN <<" "," "," "," ","h","u","l","k","(","-","1",","," ","0",")",";">>
    ELSE IF args[1].t = "int" THEN <<" "," "," "," ","h","u","l","k","(">> \o IntToStr(args[1].n) \o <<","," ","0",")",";">>
    ELSE <<" "," "," "," ","h","u","l","k","(","-","1",","," ","'">> \o SubSeq(args[1].s, 1, 1) \o <<"'",")",";">>

\* C6: hulk followed by a string of length >= 1 generates a call that passes the first
\* character of the string only; followed by an integer, a call that passes the
\* integer; followed by neither, the interactive read hulk(-1, 0).
C6_HulkOperand ==
    pc \in AfterGenerate =>
        \A k \in 1..Len(ast) :
            (ast[k].type = "hulk" /\ (ast[k].args = <<>> \/ ast[k].args[1].t = "int"
                                      \/ Len(ast[k].args[1].s) >= 1))
            => ClaimedHulkCall(ast[k].args) \in Entries(MainBody(gen_code))

--------------------------------------------------------------------------
(* C7 *)

\* tokens[c] is a starlord keyword without its string, or a doctorstrange keyword
\* without, after an optional integer, its name
MissingOperandAt(toks, c) ==
    \/ Tok(toks, c).type = "STARLORD" /\ TypeAt(toks, c + 1) # "STRING"
    \/ /\ Tok(toks, c).type = "DOCTORSTRANGE"
       /\ TypeAt(toks, IF TypeAt(toks, c + 1) = "NUMBER" THEN c + 2 ELSE c + 1) # "IDENTIFIER"

\* the error the builder owes the keyword at tokens[c]
MissingOperandKind(toks, c) ==
    IF Tok(toks, c).type = "STARLORD" THEN "expected_string" ELSE "expected_array_name"

\* the keyword stands as a word on line ln of the source
KeywordOnLine(word, ln) ==
    /\ ln \in 1..Len(lines)
    /\ \E k \in 1..Len(SplitWords(lines[ln], <<>>)) : SplitWords(lines[ln], <<>>)[k] = word

\* C7: when the builder reaches a starlord keyword whose next token is no string, or a
\* doctorstrange keyword not followed (after an optional integer) by an identifier, also
\* as the last token, the compilation aborts in that step with the error that names the
\* keyword's line; no instruction is added, nothing is generated, no temporary file is
\* written, the toolchain is not invoked, and nothing happens after the abort.
C7_MissingOperandAborts ==
    [][ /\ pc # "exited"
        /\ (pc = "parse" /\ current < Len(tokens) /\ MissingOperandAt(tokens, current))
           => /\ pc' = "exited"
              /\ error'.kind = MissingOperandKind(tokens, current)
              /\ error'.line = Tok(tokens, current).line
              /\ KeywordOnLine(Tok(tokens, current).value.s, error'.line)
              /\ ast' = ast
              /\ gen_code' = <<>>
              /\ ~temp_created' /\ toolchain_runs' = 0 /\ result' = NoResult ]_vars

C7_Witness ==
    /\ pc = "exited"
    /\ lines = <<<<"t","h","o","r">>, <<"s","t","a","r","l","o","r","d">>, <<"t","h","o","r"," ","\"","h","i","\"">>>>
    /\ error = Err("expected_string", 2)
    /\ ast = <<Node("thor")>>
    /\ gen_code = <<>> /\ ~temp_created /\ toolchain_runs = 0

--------------------------------------------------------------------------
(* C8 *)

RECURSIVE BackslashRun(_, _, _)
\* the number of consecutive backslashes that end just before column j and start after column q
BackslashRun(line, q, j) ==
    IF j - 1 > q /\ Ch(line, j - 1) = "\\" THEN 1 + BackslashRun(line, q, j - 1) ELSE 0

\* the columns after the opening quote at column q that hold a quote no escape covers
ClosingQuotes(line, q) ==
    {j \in (q + 1)..(Len(line) - 1) : Ch(line, j) = "\"" /\ BackslashRun(line, q, j) % 2 = 0}

FirstClosingQuote(line, q) ==
    CHOOSE j \in ClosingQuotes(line, q) : \A k \in ClosingQuotes(line, q) : j <= k

\* C8: when the scan of a line stands on an opening quote that no later unescaped quote
\* of the line closes (a backslash and the character after it form an escape), tokenize
\* aborts in that step with the unterminated-string error for that line's number, and no
\* token sequence is returned; when a closing quote exists, the string token's value is
\* the raw text between the two quotes and the scan resumes after the closing quote.
C8_StringLiterals ==
    [][ /\ pc = "exited" => pc' = "exited"
        /\ (pc = "lex_scan" /\ i < Len(CurLine) /\ Ch(CurLine, i) = "\"")
           => IF ClosingQuotes(CurLine, i) = {}
              THEN /\ pc' = "exited"
                   /\ error' = Err("unclosed_string", line_num)
                   /\ tokens' = tokens
              ELSE /\ pc' = "lex_scan"
                   /\ error' = NoError
                   /\ i' = FirstClosingQuote(CurLine, i) + 1
                   /\ line_tokens' = Append(line_tokens,
                          [type |-> "STRING", line |-> line_num, ind |-> NoIndent,
                           value |-> StrV(Slice(CurLine, i + 1, FirstClosingQuote(CurLine, i)))])
      ]_vars

C8_Witness ==
    /\ pc = "exited"
    /\ lines = <<<<"f","a","l","c","o","n"," ","L",":">>, <<"\"","a","\\","\"">>>>
    /\ error = Err("unclosed_string", 2)
    /\ tokens = <<[Token("FALCON", StrV(<<"f","a","l","c","o","n">>), 1) EXCEPT !.ind = 0],
                  Token("IDENTIFIER", StrV(<<"L">>), 1), Token("IDENTIFIER", StrV(<<":">>), 1)>>

--------------------------------------------------------------------------
(* C9 *)

--------------------------------------------------------------------------
(* C10 *)

\* the native statements of an operand-less keyword
Lowering(word) ==
    CASE word = <<"i","r","o","n","m","a","n">> -> <<<<" "," "," "," ","t","a","p","e","[","p","t","r","]","+","+",";">>>>
      [] word = <<"b","a","t","m","a","n">> -> <<<<" "," "," "," ","t","a","p","e","[","p","t","r","]","-","-",";">>>>
      [] word = <<"s","u","p","e","r","m","a","n">> -> <<<<" "," "," "," ","p","t","r","+","+",";">>>>
      [] word = <<"w","o","n","d","e","r","w","o","m","a","n">> -> <<<<" "," "," "," ","p","t","r","-","-",";">>>>
      [] word = <<"t","h","o","r">> -> <<<<" "," "," "," ","t","h","o","r","(",")",";">>>>
      [] word = <<"t","h","o","r","n","u","m">> -> <<<<" "," "," "," ","t","h","o","r","n","u","m","(",")",";">>>>
      [] word = <<"d","e","a","d","p","o","o","l">> -> <<<<" "," "," "," ","p","t","r"," ","="," ","0",";">>>>
      [] word = <<"l","o","k","i">> -> <<<<" "," "," "," ","t","a","p","e","[","p","t","r","]"," ","="," ","0",";">>, <<" "," "," "," ","p","r","i","n","t","f","(","\"","L","o","k","i"," ","c","l","e","a","r","e","d"," ","c","e","l","l"," ","%","d","\\","n","\"",","," ","p","t","r",")",";">>>>

RECURSIVE LowerAll(_)
LowerAll(words) ==
    IF words = <<>> THEN <<>> ELSE Lowering(Head(words)) \o LowerAll(Tail(words))

OnlyOperandLess(ls) ==
    /\ SourceWords(ls) # <<>>
    /\ \A k \in 1..Len(SourceWords(ls)) : SourceWords(ls)[k] \in OperandLessWords

\* C10: for a source made only of operand-less keywords, the generated entry point is
\* the lowerings of the keywords in source order, one per occurrence, nothing dropped,
\* duplicated or reordered.
C10_LoweringInSourceOrder ==
    (pc \in AfterGenerate /\ OnlyOperandLess(lines)) =>
        MainBody(gen_code) = LowerAll(SourceWords(lines))

C10_Witness ==
    /\ pc = "returned"
    /\ lines = <<<<"i","r","o","n","m","a","n">>, <<"i","r","o","n","m","a","n">>, <<"t","h","o","r">>>>
    /\ MainBody(gen_code) = <<<<" "," "," "," ","t","a","p","e","[","p","t","r","]","+","+",";">>, <<" "," "," "," ","t","a","p","e","[","p","t","r","]","+","+",";">>, <<" "," "," "," ","t","h","o","r","(",")",";">>>>

--------------------------------------------------------------------------
(* C11 *)

\* the resolver pass is over
FirstPassOver == pc \notin {"lex_line", "lex_scan", "first_pass"} /\ error.kind \notin
    {"unclosed_string", "invalid_cell_ref", "invalid_operator"}

Visited == {fp_visited[k] : k \in 1..Len(fp_visited)}

\* the name a declaration keyword at tokens[k] declares, taken from the tokens after it
DeclaredName(toks, k) ==
    IF Tok(toks, k).type = "DOCTORSTRANGE" /\ TypeAt(toks, k + 1) = "NUMBER"
    THEN (IF TypeAt(toks, k + 2) = "IDENTIFIER" THEN Tok(toks, k + 2).value.s ELSE <<>>)
    ELSE IF TypeAt(toks, k + 1) = "IDENTIFIER" THEN StripColon(Tok(toks, k + 1).value.s)
    ELSE <<>>

\* the table of a declaration keyword holds the name
Registered(type, name) ==
    CASE type = "FALCON" -> name \in labels
      [] type = "FLASH" -> DictHas(flashes, name)
      [] type = "DOCTORSTRANGE" -> DictHas(doctorstranges, name)

\* C11: after a falcon keyword at position i the resolver scan resumes at i + 2, so a
\* falcon, flash or doctorstrange keyword standing at i + 2 is examined by the scan and
\* the name it declares is registered in its table.
C11_FalconSkipsTwo ==
    FirstPassOver =>
        \A k \in Visited :
            ( /\ Tok(tokens, k).type = "FALCON" /\ k + 2 < Len(tokens)
              /\ Tok(tokens, k + 2).type \in {"FALCON", "FLASH", "DOCTORSTRANGE"} ) =>
                /\ k + 2 \in Visited
                /\ DeclaredName(tokens, k + 2) # <<>>
                   => Registered(Tok(tokens, k + 2).type, DeclaredName(tokens, k + 2))

--------------------------------------------------------------------------
(* C12 *)

\* a falcon or flash keyword that is first on its line with a recorded indent of 0
TopLevelKeyword(tok) == tok.type \in {"FALCON", "FLASH"} /\ tok.ind = 0

\* the first index from k on that holds such a keyword, or the end of the tokens
ClaimedBodyEnd(toks, k) ==
    IF \E j \in k..(Len(toks) - 1) : TopLevelKeyword(Tok(toks, j))
    THEN CHOOSE j \in k..(Len(toks) - 1) :
             TopLevelKeyword(Tok(toks, j)) /\ \A h \in k..(j - 1) : ~TopLevelKeyword(Tok(toks, h))
    ELSE IF k < Len(toks) THEN Len(toks) ELSE k

\* the body stored under a loop name
BodyOf(fs, name) == fs[CHOOSE k \in 1..Len(fs) : fs[k][1] = name][2]

\* the resolver is at a flash keyword followed by a name
AtFlashDefinition ==
    /\ pc = "first_pass" /\ fp_i < Len(tokens)
    /\ Tok(tokens, fp_i).type = "FLASH" /\ TypeAt(tokens, fp_i + 1) = "IDENTIFIER"

\* C12: the body registered for a flash definition is the contiguous run of tokens from
\* just after the loop name up to the first later falcon or flash keyword whose recorded
\* indent is 0, or to the end of the tokens; a falcon or flash keyword that is not first
\* on its line has no recorded indent and stays inside the body; the token at the
\* boundary is not in the body and is the next one the resolver examines.
C12_FlashBodyExtent ==
    [][ AtFlashDefinition =>
          LET name == StripColon(Tok(tokens, fp_i + 1).value.s)
              e == ClaimedBodyEnd(tokens, fp_i + 2)
          IN  /\ DictHas(flashes', name)
              /\ BodyOf(flashes', name) = Slice(tokens, fp_i + 2, e)
              /\ fp_i' = e ]_vars

--------------------------------------------------------------------------
(* C13 *)

OpensRegion(line) == Contains(line, <<"h","e","r","o","e","s","*">>) /\ ~Contains(line, <<"*","h","e","r","o","e","s">>)

\* line n lies in a block-comment region, its opening and closing lines included: some
\* line o <= n opens, and no line strictly between o and n holds the closing marker
InRegion(n) ==
    \E o \in 1..n :
        OpensRegion(lines[o]) /\ \A j \in (o + 1)..(n - 1) : ~Contains(lines[j], <<"*","h","e","r","o","e","s">>)

NoTokenInRegion(toks) == \A k \in 1..Len(toks) : ~InRegion(toks[k].line)

IsLineComment(line) == startswith(lstrip(line), <<"h","e","r","o",">">>)

\* C13: a block comment opens on a line that holds `heroes*` and not `*heroes` and closes
\* on the first later line that holds `*heroes`; no token carries a line number from the
\* opening line to the closing line inclusive, so code after the closing marker on the
\* closing line gives no token either; a line outside every region that is neither blank
\* nor a line comment is scanned from its first non-space column.
C13_BlockComment ==
    [][ /\ NoTokenInRegion(tokens') /\ NoTokenInRegion(line_tokens')
        /\ (pc = "lex_line" /\ line_num < Len(lines)) =>
              LET n == line_num + 1
              IN  IF InRegion(n)
                  THEN pc' = "lex_line" /\ tokens' = tokens /\ line_num' = n
                  ELSE (~IsBlank(lines[n]) /\ ~IsLineComment(lines[n])) =>
                           /\ pc' = "lex_scan" /\ line_num' = n
                           /\ i' = LeadingSpaces(lines[n]) /\ line_tokens' = <<>> ]_vars

\* a region of three lines or more was closed by a line with code after the marker, and
\* a later line gave a token
C13_Witness ==
    \E o \in 1..Len(lines), c \in 1..Len(lines) :
        /\ o + 1 < c /\ OpensRegion(lines[o])
        /\ InRegion(c) /\ Contains(lines[c], <<"*","h","e","r","o","e","s">>) /\ ~endswith(lines[c], <<"*","h","e","r","o","e","s">>)
        /\ \E k \in 1..Len(tokens) : tokens[k].line > c

--------------------------------------------------------------------------
(* C14 *)

SpidermanTokens == {k \in 1..Len(tokens) : tokens[k].type = "SPIDERMAN"}

SpidermanNodes == {k \in 1..Len(ast) : ast[k].type = "spiderman"}

\* a conditional jump with its operator and both operands present
IsComplete(node) == node.op # NoneV /\ node.left # NoneV /\ node.right # NoneV

ConditionalEntries(body) == {k \in 1..Len(body) : startswith(body[k], Indent \o <<"i","f"," ","(">>)}

\* C14: the builder never aborts on a spiderman statement, it builds one conditional-jump
\* instruction for each and leaves a missing or ill-typed part absent; the generator
\* refuses to lower a conditional jump whose operator or an operand is absent, so the
\* generated entry point holds a conditional statement for the complete ones only.
C14_IncompleteCondJumpRefused ==
    pc \in AfterGenerate =>
        /\ Cardinality(SpidermanNodes) = Cardinality(SpidermanTokens)
        /\ Cardinality(ConditionalEntries(MainBody(gen_code)))
               = Cardinality({k \in SpidermanNodes : IsComplete(ast[k])})

--------------------------------------------------------------------------
(* C15 *)

\* C15: when the lexer takes a line whose trimmed text begins with `hero>`, nothing of
\* its state changes but the line counter: no token is added, no scan starts and the
\* block-comment mode stays as it was, whatever follows the marker.
C15_LineCommentInert ==
    [][ (pc = "lex_line" /\ line_num < Len(lines) /\ IsLineComment(lines[line_num + 1])) =>
            /\ multiline_comment' = multiline_comment
            /\ tokens' = tokens /\ line_tokens' = line_tokens
            /\ pc' = "lex_line" ]_vars

--------------------------------------------------------------------------
(* C16 *)

\* the source is made of operand-less keywords, `flash` and the loop name N, with at
\* least one `flash` and every `flash` directly followed by N
LoopSource(ls) ==
    LET words == SourceWords(ls)
    IN  /\ NoComments(ls)
        /\ \A k \in 1..Len(words) : words[k] \in OperandLessWords \cup {<<"f","l","a","s","h">>, <<"N">>}
        /\ \E k \in 1..Len(words) : words[k] = <<"f","l","a","s","h">>
        /\ \A k \in 1..Len(words) :
               words[k] = <<"f","l","a","s","h">> => (k < Len(words) /\ words[k + 1] = <<"N">>)

\* what the claim has the builder and generator make of one word of such a source
LoopLowering(word) ==
    IF word = <<"f","l","a","s","h">> THEN <<>>
    ELSE IF word = <<"N">> THEN <<<<" "," "," "," ","/","/"," ","F","l","a","s","h"," ","l","o","o","p",":"," ","N">>>>
    ELSE Lowering(word)

RECURSIVE LoopLowerAll(_)
LoopLowerAll(words) ==
    IF words = <<>> THEN <<>> ELSE LoopLowering(Head(words)) \o LoopLowerAll(Tail(words))

\* C16: the builder ignores loop-body extents. For a registered definition `flash N` it
\* skips `flash`, emits one loop-invocation marker for N at the definition site and
\* builds every statement of the body as an ordinary instruction at its source position:
\* the body is generated once, where it is written, and a later bare N adds only the
\* marker comment.
C16_LoopBodyInline ==
    (pc \in AfterGenerate /\ LoopSource(lines)) =>
        /\ DictHas(flashes, <<"N">>)
        /\ MainBody(gen_code) = LoopLowerAll(SourceWords(lines))

\* a loop with a two-statement body was defined and later invoked by its bare name
C16_Witness ==
    /\ pc = "returned"
    /\ lines = <<<<"f","l","a","s","h"," ","N">>, <<" "," "," "," ","i","r","o","n","m","a","n">>, <<"t","h","o","r"," ","f","l","a","s","h"," ","N">>, <<"l","o","k","i">>, <<"N">>>>
    /\ MainBody(gen_code) = << <<" "," "," "," ","/","/"," ","F","l","a","s","h"," ","l","o","o","p",":"," ","N">>, <<" "," "," "," ","t","a","p","e","[","p","t","r","]","+","+",";">>, <<" "," "," "," ","t","h","o","r","(",")",";">>,
                               <<" "," "," "," ","/","/"," ","F","l","a","s","h"," ","l","o","o","p",":"," ","N">>, <<" "," "," "," ","t","a","p","e","[","p","t","r","]"," ","="," ","0",";">>,
                               <<" "," "," "," ","p","r","i","n","t","f","(","\"","L","o","k","i"," ","c","l","e","a","r","e","d"," ","c","e","l","l"," ","%","d","\\","n","\"",","," ","p","t","r",")",";">>,
                               <<" "," "," "," ","/","/"," ","F","l","a","s","h"," ","l","o","o","p",":"," ","N">> >>

--------------------------------------------------------------------------
(* C17 *)

\* one iteration of the lexer's scan of a line moves the column forward
LexerAdvances == (pc = "lex_scan" /\ i < Len(CurLine)) => i' > i

\* one iteration of the resolver scan moves its index forward
ResolverAdvances == (pc = "first_pass" /\ fp_i < Len(tokens)) => fp_i' > fp_i

\* one call of parse_statement that returns moves the cursor forward and adds at most
\* one instruction
BuilderAdvances ==
    (pc = "parse" /\ current < Len(tokens) /\ pc' # "exited") =>
        /\ current' > current
        /\ Len(ast') <= Len(ast) + 1
        /\ SubSeq(ast', 1, Len(ast)) = ast

\* parse() returned its instruction sequence, or the compiler exited on a fatal error
BuiltOrFatal == pc \in {"generate"} \cup AfterGenerate \/ pc = "exited"

\* C17: every stage terminates. Each iteration of the lexer's line scan advances the
\* column, each iteration of the resolver scan advances its index, each parse_statement
\* call advances the cursor and adds at most one instruction; so every run reaches a
\* completed instruction sequence or a fatal error, and the instructions never outnumber
\* the tokens.
C17_StagesTerminate ==
    /\ [][LexerAdvances /\ ResolverAdvances /\ BuilderAdvances]_vars
    /\ [](Len(ast) <= current /\ current <= Len(tokens))
    /\ <>BuiltOrFatal

\* the three stages ran over a source of several lines and the instruction sequence is
\* complete, shorter than the token sequence
C17_Witness ==
    /\ pc = "generate"
    /\ Len(lines) >= 3 /\ Len(tokens) >= 4
    /\ Len(fp_visited) >= 2
    /\ Len(ast) >= 2 /\ Len(ast) < Len(tokens)

====
